---- MODULE Spec2Model ----
(***************************************************************************)
(* Model of src/script.js: the tone generator widget.                      *)
(*                                                                         *)
(* The state is the closure state of the DOMContentLoaded callback: the    *)
(* lazily created audio context, the generator and test tone node          *)
(* references with their running flags, the 'active-audio' class of the    *)
(* body, the knob value and the drag flag.  The host audio engine is the   *)
(* table osc of the oscillator chains that are sounding, with the order    *)
(* endOrder in which their scheduled stops come due.                       *)
(*                                                                         *)
(* Numbers that JavaScript holds as doubles (requested Hz values, angles)  *)
(* are exact rationals [n, d] with d > 0.  The values the program derives  *)
(* from them are integers after Math.round; the floating point error of    *)
(* hzToAngle / angleToHz is below 1e-12 and the values rounded there lie   *)
(* on integers, so exact arithmetic rounds as the doubles do.              *)
(***************************************************************************)
EXTENDS Integers, Sequences, FiniteSets, TLC

VARIABLES
  audioContext,   \* BOOLEAN: the AudioContext has been created (line 11)
  genOsc,         \* id of the chain held in genOsc, or null (line 14)
  genGain,        \* id of the chain whose gain node is held, or null (line 15)
  genLPF,         \* id of the chain whose filter is held, or null (line 16)
  genRunning,     \* line 17
  testOsc,        \* line 20
  testGain,       \* line 21
  testRunning,    \* line 22
  indicator,      \* document.body has the class 'active-audio'
  currentHz,      \* line 73
  knobAngle,      \* rotation written to the knob indicator (line 105)
  dragging,       \* line 119
  osc,            \* host audio engine: the oscillator chains
  endOrder,       \* host audio engine: ids in the order their stops come due
  lastOp,         \* the handler that ran last, with what it was given
  quiet           \* the user has stopped pressing the buttons

sessionVars == <<audioContext, genOsc, genGain, genLPF, genRunning,
                 testOsc, testGain, testRunning, indicator>>
knobVars == <<currentHz, knobAngle, dragging>>
engineVars == <<osc, endOrder>>
vars == <<audioContext, genOsc, genGain, genLPF, genRunning, testOsc, testGain,
          testRunning, indicator, currentHz, knobAngle, dragging, osc, endOrder,
          lastOp, quiet>>

----------------------------------------------------------------------------
(* Bounds and program constants *)

MaxOsc == 2          \* oscillator chains that may sound at the same time

null == 0
MIN_HZ == 20
MAX_HZ == 120
InitHz == 30
SweepDeg == 135      \* the knob sweeps -135 .. +135 degrees
SweepSpan == 270
TEST_HZ == 3030

OscIds == 1..MaxOsc

----------------------------------------------------------------------------
(* Rationals *)

Rat(n, d) == [n |-> n, d |-> d]
OfInt(i) == [n |-> i, d |-> 1]
RatLt(a, b) == a.n * b.d < b.n * a.d
RatLeq(a, b) == a.n * b.d <= b.n * a.d

\* Math.round: the nearest integer, a tie going up.
MathRound(x) == (2 * x.n + x.d) \div (2 * x.d)

MathMin(a, b) == IF a < b THEN a ELSE b
MathMax(a, b) == IF a > b THEN a ELSE b

RatMin(a, b) == IF RatLt(a, b) THEN a ELSE b
RatMax(a, b) == IF RatLt(b, a) THEN a ELSE b

----------------------------------------------------------------------------
(* Frequency knob: lines 71-113 *)

\* hzToAngle drawn over the full turn, -180 .. +180, instead of the sweep
hzToAngleFullTurn(hz) ==
  Rat(-180 * (MAX_HZ - MIN_HZ) + (hz - MIN_HZ) * 360, MAX_HZ - MIN_HZ)

\* hzToAngle: -135 + ((hz - MIN_HZ) / (MAX_HZ - MIN_HZ)) * 270
hzToAngle(hz) ==
  Rat(-SweepDeg * (MAX_HZ - MIN_HZ) + (hz - MIN_HZ) * SweepSpan, MAX_HZ - MIN_HZ)

\* the angle clamped to the sweep (line 87)
clampAngle(angle) == RatMax(OfInt(-SweepDeg), RatMin(OfInt(SweepDeg), angle))

\* angleToHz: Math.round(MIN_HZ + ((a + 135) / 270) * (MAX_HZ - MIN_HZ))
angleToHz(angle) ==
  LET a == clampAngle(angle)
      hz == Rat(MIN_HZ * SweepSpan * a.d + (a.n + SweepDeg * a.d) * (MAX_HZ - MIN_HZ),
                SweepSpan * a.d)
  IN MathRound(hz)

\* setHz storing the value cut to an integer, not rounded
setHzTruncates(hz) == MathMax(MIN_HZ, MathMin(MAX_HZ, hz.n \div hz.d))

\* setHz storing the rounded value without clamping it
setHzNoClamp(hz) == MathRound(hz)

\* the value setHz stores (line 94)
setHzStored(hz) == MathMax(MIN_HZ, MathMin(MAX_HZ, MathRound(hz)))

\* setHz (lines 93-113): store, redraw the knob, retarget a live generator
setHz(s, hz) ==
  LET newHz == setHzStored(hz)
  IN [s EXCEPT !.currentHz = newHz,
               !.knobAngle = hzToAngle(newHz),
               !.osc = IF s.genRunning /\ s.audioContext /\ s.genOsc # null
                       THEN [s.osc EXCEPT ![s.genOsc].freq = newHz]
                       ELSE s.osc]

\* pointerMove (lines 139-147); the event is given by the angle that
\* getAngleFromPointer computes for it, a value in (-180, 180]
pointerMove(s, angle) ==
  IF ~s.dragging THEN s ELSE setHz(s, OfInt(angleToHz(angle)))

Keys == {"ArrowUp", "ArrowRight", "ArrowDown", "ArrowLeft", "PageUp", "PageDown",
         "Home", "End", "Tab"}

\* the keydown handler as it would be if the page keys stepped by 10 Hz
keyRequestPageTen(key, hz) ==
  CASE key \in {"ArrowUp", "ArrowRight"} -> hz + 1
    [] key \in {"ArrowDown", "ArrowLeft"} -> hz - 1
    [] key = "PageUp" -> hz + 10
    [] key = "PageDown" -> hz - 10
    [] key = "Home" -> MIN_HZ
    [] key = "End" -> MAX_HZ

\* the value the keydown handler gives setHz (lines 173-186)
keyRequest(key, hz) ==
  CASE key \in {"ArrowUp", "ArrowRight"} -> hz + 1
    [] key \in {"ArrowDown", "ArrowLeft"} -> hz - 1
    [] key = "PageUp" -> hz + 5
    [] key = "PageDown" -> hz - 5
    [] key = "Home" -> MIN_HZ
    [] key = "End" -> MAX_HZ

keydown(s, key) ==
  IF key = "Tab" THEN s ELSE setHz(s, OfInt(keyRequest(key, s.currentHz)))

----------------------------------------------------------------------------
(* Host audio engine: oscillator chains and their scheduled stops *)

\* osc[i].kind     "free" | "gen" | "test"
\* osc[i].freq     frequency target of the oscillator
\* osc[i].onended  the handler in osc.onended:
\*                 "none" | "natural" (lines 281-286) | "releaseGen"
\*                 (lines 50-54, 234-238) | "releaseTest" (lines 59-62)
\* osc[i].soft     softStopNode on this chain: "none" | "ok" | "threw"
\* osc[i].gainEnd  the ramp to 0 on the chain's gain: "none" | "natural" (the
\*                 test tone's own, line 274) | "soft" (line 36) | "cancelled"
\*                 (line 34 removed it and line 36 was not reached)
FreeOsc ==
  [kind |-> "free", freq |-> 0, onended |-> "none", soft |-> "none", gainEnd |-> "none"]

Callbacks == {"none", "natural", "releaseGen", "releaseTest"}

\* How softStopNode ends: it returns normally, or a call of the host throws
\* at line 33-34 ("cancel"), at line 35-36 ("ramp") or at line 37 ("stop").
Throws == {"ok", "cancel", "ramp", "stop"}

HasFree(o) == \E i \in OscIds : o[i].kind = "free"
NewId(o) == CHOOSE i \in OscIds : o[i].kind = "free" /\ \A j \in OscIds : o[j].kind = "free" => i <= j

RemoveId(q, id) == SelectSeq(q, LAMBDA x : x # id)
InsertAt(q, pos, id) == SubSeq(q, 1, pos - 1) \o <<id>> \o SubSeq(q, pos, Len(q))

\* The last place in q of a stop that softStopNode scheduled (0: none).
LastSoft(q, o) ==
  LET at == {k \in 1..Len(q) : o[q[k]].soft = "ok"}
  IN IF at = {} THEN 0 ELSE CHOOSE k \in at : \A m \in at : m <= k

\* osc.stop(now + 0.07): the stop comes due after every stop softStopNode
\* scheduled before (their times are earlier), and after `ahead` of the test
\* tones' stops at start + 9 s that are still pending, which the current time
\* decides.  A stop scheduled before for the same oscillator is replaced.
scheduleSoftStop(q, o, id, ahead) ==
  LET r == RemoveId(q, id)
      pos == MathMin(LastSoft(r, o) + 1 + ahead, Len(r) + 1)
  IN InsertAt(r, pos, id)

\* The record of the state the handlers read and write.
Cur ==
  [audioContext |-> audioContext, genOsc |-> genOsc, genGain |-> genGain,
   genLPF |-> genLPF, genRunning |-> genRunning, testOsc |-> testOsc,
   testGain |-> testGain, testRunning |-> testRunning, indicator |-> indicator,
   currentHz |-> currentHz, knobAngle |-> knobAngle, dragging |-> dragging,
   osc |-> osc, endOrder |-> endOrder]

Apply(s) ==
  /\ audioContext' = s.audioContext
  /\ genOsc' = s.genOsc
  /\ genGain' = s.genGain
  /\ genLPF' = s.genLPF
  /\ genRunning' = s.genRunning
  /\ testOsc' = s.testOsc
  /\ testGain' = s.testGain
  /\ testRunning' = s.testRunning
  /\ indicator' = s.indicator
  /\ currentHz' = s.currentHz
  /\ knobAngle' = s.knobAngle
  /\ dragging' = s.dragging
  /\ osc' = s.osc
  /\ endOrder' = s.endOrder

----------------------------------------------------------------------------
(* Shared audio engine: lines 11-66 *)

ensureContext(s) == [s EXCEPT !.audioContext = TRUE]

\* the test tone's onended leaving testRunning as it is
runCallbackKeepsFlag(cb, s) ==
  CASE cb = "releaseGen" -> [s EXCEPT !.genOsc = null, !.genGain = null, !.genLPF = null]
    [] cb = "releaseTest" -> [s EXCEPT !.testOsc = null, !.testGain = null]
    [] cb = "natural" -> [s EXCEPT !.testOsc = null, !.testGain = null,
                                   !.indicator = FALSE]
    [] OTHER -> s

\* The three handlers the program puts in osc.onended or passes as onDone.
runCallback(cb, s) ==
  CASE cb = "releaseGen" -> [s EXCEPT !.genOsc = null, !.genGain = null, !.genLPF = null]
    [] cb = "releaseTest" -> [s EXCEPT !.testOsc = null, !.testGain = null]
    [] cb = "natural" -> [s EXCEPT !.testRunning = FALSE, !.testOsc = null,
                                   !.testGain = null, !.indicator = FALSE]
    [] OTHER -> s

\* a catch block that swallows the error and does not call onDone
softStopCatchSwallows(onDone, s) == s

\* catch { onDone?.(); }  (lines 39-41)
softStopCatch(onDone, s) == runCallback(onDone, s)

\* What the calls made before the throw leave on the gain (lines 34-36).
gainAfterThrow(th, before) ==
  CASE th = "cancel" -> before
    [] th = "ramp" -> IF before = "none" THEN "none" ELSE "cancelled"
    [] OTHER -> "soft"

softStopNode(s, o, g, onDone, th, ahead) ==
  IF th = "ok"
  THEN [s EXCEPT !.osc[g].gainEnd = "soft",
                 !.osc[o].soft = "ok",
                 !.osc[o].onended = onDone,
                 !.endOrder = scheduleSoftStop(s.endOrder, s.osc, o, ahead)]
  ELSE softStopCatch(onDone,
         [s EXCEPT !.osc[g].gainEnd = gainAfterThrow(th, s.osc[g].gainEnd),
                   !.osc[o].soft = "threw"])

\* the guard of line 48 without the running flag
genStoppableNoFlag(s) == s.genOsc # null /\ s.genGain # null

genStoppable(s) == s.genRunning /\ s.genOsc # null /\ s.genGain # null
testStoppable(s) == s.testRunning /\ s.testOsc # null /\ s.testGain # null

stopAllAudio(s, gt, ga, tt, ta) ==
  IF ~s.audioContext THEN s
  ELSE
    LET s1 == IF genStoppable(s)
              THEN softStopNode([s EXCEPT !.genRunning = FALSE],
                                s.genOsc, s.genGain, "releaseGen", gt, ga)
              ELSE s
        s2 == IF testStoppable(s1)
              THEN softStopNode([s1 EXCEPT !.testRunning = FALSE],
                                s1.testOsc, s1.testGain, "releaseTest", tt, ta)
              ELSE s1
    IN [s2 EXCEPT !.indicator = FALSE]

----------------------------------------------------------------------------
(* Generator and test tone: lines 195-287 *)

\* stopGenerator without the running flag in its guard (line 231)
stopGeneratorNoFlag(s, gt, ga) ==
  IF ~s.audioContext \/ s.genOsc = null \/ s.genGain = null
  THEN s
  ELSE
    LET s1 == softStopNode([s EXCEPT !.genRunning = FALSE],
                           s.genOsc, s.genGain, "releaseGen", gt, ga)
    IN [s1 EXCEPT !.indicator = FALSE]

stopGenerator(s, gt, ga) ==
  IF ~s.genRunning \/ ~s.audioContext \/ s.genOsc = null \/ s.genGain = null
  THEN s
  ELSE
    LET s1 == softStopNode([s EXCEPT !.genRunning = FALSE],
                           s.genOsc, s.genGain, "releaseGen", gt, ga)
    IN [s1 EXCEPT !.indicator = FALSE]

\* startGenerator as it would be if a start reset the frequency setting
startGeneratorResetsHz(s, tt, ta) ==
  IF s.genRunning THEN s
  ELSE
    LET s1 == IF s.testRunning THEN stopAllAudio(s, "ok", 0, tt, ta) ELSE s
        s2 == ensureContext(s1)
        id == NewId(s2.osc)
    IN [s2 EXCEPT !.osc[id] = [kind |-> "gen", freq |-> InitHz,
                               onended |-> "none", soft |-> "none",
                               gainEnd |-> "none"],
                  !.genOsc = id, !.genGain = id, !.genLPF = id,
                  !.genRunning = TRUE,
                  !.indicator = TRUE,
                  !.currentHz = InitHz]

\* In the stopAllAudio of line 199 genRunning is false (line 196), so only its
\* test tone branch can run: tt and ta are how that soft-stop ends.
startGenerator(s, tt, ta) ==
  IF s.genRunning THEN s
  ELSE
    LET s1 == IF s.testRunning THEN stopAllAudio(s, "ok", 0, tt, ta) ELSE s
        s2 == ensureContext(s1)
        id == NewId(s2.osc)
    IN [s2 EXCEPT !.osc[id] = [kind |-> "gen", freq |-> s2.currentHz,
                               onended |-> "none", soft |-> "none",
                               gainEnd |-> "none"],
                  !.genOsc = id, !.genGain = id, !.genLPF = id,
                  !.genRunning = TRUE,
                  !.indicator = TRUE]

playTestTone(s, gt, ga) ==
  IF s.testRunning THEN s
  ELSE
    LET s1 == IF s.genRunning THEN stopGenerator(s, gt, ga) ELSE s
        s2 == ensureContext(s1)
        id == NewId(s2.osc)
    IN [s2 EXCEPT !.osc[id] = [kind |-> "test", freq |-> TEST_HZ,
                               onended |-> "natural", soft |-> "none",
                               gainEnd |-> "natural"],
                  !.endOrder = Append(s2.endOrder, id),
                  !.testOsc = id, !.testGain = id,
                  !.testRunning = TRUE,
                  !.indicator = TRUE]

\* The 'ended' event of the oscillator whose stop comes due first.
oscEnded(s) ==
  LET id == Head(s.endOrder)
  IN runCallback(s.osc[id].onended,
                 [s EXCEPT !.osc[id] = FreeOsc, !.endOrder = Tail(s.endOrder)])

----------------------------------------------------------------------------
(* Handlers *)

SessionState ==
  IF genRunning /\ testRunning THEN "both"
  ELSE IF genRunning THEN "gen"
  ELSE IF testRunning THEN "test"
  ELSE "idle"

NoReq == OfInt(0)

\* lastOp: the handler (for an 'ended' event, the callback in osc.onended),
\* the session state it found, how the soft-stops it made ended ("none": it
\* made none) and the value it gave setHz.
Op(name, gt, tt, req) ==
  [op |-> name, pre |-> SessionState, genThr |-> gt, testThr |-> tt, req |-> req]

Done(name, gt, tt, req) == lastOp' = Op(name, gt, tt, req) /\ UNCHANGED quiet

\* The inputs of a soft-stop: how it ends (one of throws), and how many of
\* the pending stops of test tones come due before it.  A soft-stop that is
\* not made has none.
ThrowsIf(ran, throws) == IF ran THEN throws ELSE {"none"}
AheadsIf(ran, th) ==
  IF ran /\ th = "ok"
  THEN 0..Cardinality({k \in 1..Len(endOrder) : osc[endOrder[k]].soft # "ok"})
  ELSE {0}

\* startBtn click (line 243)
StartGenerator(throws) ==
  /\ genRunning \/ HasFree(osc)
  /\ LET ranTest == ~genRunning /\ testRunning /\ audioContext /\ testStoppable(Cur)
     IN \E tt \in ThrowsIf(ranTest, throws) : \E ta \in AheadsIf(ranTest, tt) :
          /\ Apply(startGenerator(Cur, tt, ta))
          /\ Done("startGenerator", "none", tt, NoReq)

\* stopBtn click (line 244)
StopGenerator(throws) ==
  LET ran == genRunning /\ audioContext /\ genOsc # null /\ genGain # null
  IN \E gt \in ThrowsIf(ran, throws) : \E ga \in AheadsIf(ran, gt) :
       /\ Apply(stopGenerator(Cur, gt, ga))
       /\ Done("stopGenerator", gt, "none", NoReq)

\* testToneBtn click (line 289)
PlayTestTone(throws) ==
  /\ testRunning \/ HasFree(osc)
  /\ LET ran == ~testRunning /\ genRunning /\ audioContext
                /\ genOsc # null /\ genGain # null
     IN \E gt \in ThrowsIf(ran, throws) : \E ga \in AheadsIf(ran, gt) :
          /\ Apply(playTestTone(Cur, gt, ga))
          /\ Done("playTestTone", gt, "none", NoReq)

\* .warn-btn click: panic stop (lines 294-300)
WarnClick(throws) ==
  LET ranGen == audioContext /\ genStoppable(Cur)
      ranTest == audioContext /\ testStoppable(Cur)
  IN \E gt \in ThrowsIf(ranGen, throws), tt \in ThrowsIf(ranTest, throws) :
       \E ga \in AheadsIf(ranGen, gt), ta \in AheadsIf(ranTest, tt) :
         /\ Apply(stopAllAudio(Cur, gt, ga, tt, ta))
         /\ Done("stopAllAudio", gt, tt, NoReq)

\* An oscillator's 'ended' event is delivered.
OscEnded ==
  /\ endOrder # <<>>
  /\ Apply(oscEnded(Cur))
  /\ Done(osc[Head(endOrder)].onended, "none", "none", NoReq)

\* knob mousedown / touchstart (lines 158-170)
PointerDown(angles) ==
  \E a \in angles :
    /\ Apply(pointerMove([Cur EXCEPT !.dragging = TRUE], a))
    /\ Done("pointerDown", "none", "none", OfInt(angleToHz(a)))

\* window mousemove / touchmove, registered while a drag lasts
PointerMove(angles) ==
  /\ dragging
  /\ \E a \in angles :
       /\ Apply(pointerMove(Cur, a))
       /\ Done("pointerMove", "none", "none", OfInt(angleToHz(a)))

\* window mouseup / touchend (lines 149-155)
PointerUp ==
  /\ dragging
  /\ Apply([Cur EXCEPT !.dragging = FALSE])
  /\ Done("pointerUp", "none", "none", NoReq)

\* knob keydown (lines 173-186)
Keydown(keys) ==
  \E key \in keys :
    /\ Apply(keydown(Cur, key))
    /\ Done(key, "none", "none",
                    IF key = "Tab" THEN NoReq ELSE OfInt(keyRequest(key, currentHz)))

\* setHz called with the value v
SetHzCall(reqs) ==
  \E v \in reqs :
    /\ Apply(setHz(Cur, v))
    /\ Done("setHz", "none", "none", v)

----------------------------------------------------------------------------
(* Inputs *)

\* pointer angles in hundredths of a degree: below, on and above the sweep,
\* on a rounding tie (1.35 degrees is 70.5 Hz) and next to it
Angles == {Rat(k, 100) : k \in {-17999, -13500, -13366, -13365, -10800, -6750,
                                0, 134, 135, 13364, 13365, 13500, 18000}}
SessionAngles == {Rat(k, 100) : k \in {-6750, 18000}}
SessionKeys == {"Home", "End", "Tab"}

\* requested values: below, on and above the bounds, ties and non-integers
Requests == {Rat(k, 10) : k \in {-25, 150, 194, 195, 196, 200, 300, 734, 735, 736,
                                 1195, 1200, 1204, 1205, 1250, 3030}}

----------------------------------------------------------------------------
(* Specifications *)

\* The state when the DOMContentLoaded callback returns: line 116 has called
\* setHz(currentHz) with the initial 30.
Init ==
  /\ audioContext = FALSE
  /\ genOsc = null /\ genGain = null /\ genLPF = null /\ genRunning = FALSE
  /\ testOsc = null /\ testGain = null /\ testRunning = FALSE
  /\ indicator = FALSE
  /\ currentHz = setHzStored(OfInt(InitHz))
  /\ knobAngle = hzToAngle(setHzStored(OfInt(InitHz)))
  /\ dragging = FALSE
  /\ osc = [i \in OscIds |-> FreeOsc]
  /\ endOrder = <<>>
  /\ lastOp = [op |-> "init", pre |-> "idle", genThr |-> "none", testThr |-> "none",
               req |-> OfInt(InitHz)]
  /\ quiet = FALSE

\* The program: every handler, the knob driven by a few inputs.
Next ==
  \/ StartGenerator(Throws)
  \/ StopGenerator(Throws)
  \/ PlayTestTone(Throws)
  \/ WarnClick(Throws)
  \/ OscEnded
  \/ PointerDown(SessionAngles)
  \/ PointerMove(SessionAngles)
  \/ PointerUp
  \/ Keydown(SessionKeys)

Spec == Init /\ [][Next]_vars

\* The program on a host whose audio calls never throw.
NextOk ==
  \/ StartGenerator({"ok"})
  \/ StopGenerator({"ok"})
  \/ PlayTestTone({"ok"})
  \/ WarnClick({"ok"})
  \/ OscEnded
  \/ PointerDown(SessionAngles)
  \/ PointerMove(SessionAngles)
  \/ PointerUp
  \/ Keydown(SessionKeys)

SpecOk == Init /\ [][NextOk]_vars

\* The session left alone while a test tone plays: at some moment the user
\* stops pressing the buttons, and only 'ended' events follow.  The host
\* delivers the 'ended' event of an oscillator whose stop time has passed,
\* hence the fairness.
UserCall ==
  /\ ~quiet
  /\ \/ StartGenerator(Throws)
     \/ StopGenerator(Throws)
     \/ PlayTestTone(Throws)
     \/ WarnClick(Throws)

GoQuiet ==
  /\ ~quiet /\ testRunning
  /\ quiet' = TRUE
  /\ UNCHANGED <<sessionVars, knobVars, engineVars, lastOp>>

NextAuto == UserCall \/ GoQuiet \/ OscEnded

SpecAuto == Init /\ [][NextAuto]_vars /\ WF_vars(OscEnded)

\* The buttons on a host that never throws, until the user's last press.
UserCallOk ==
  /\ ~quiet
  /\ \/ StartGenerator({"ok"})
     \/ StopGenerator({"ok"})
     \/ PlayTestTone({"ok"})
     \/ WarnClick({"ok"})

\* The user's last press was Stop or the panic button: nothing is pressed
\* after it, and the pending 'ended' events are delivered.
GoQuietAfterStop ==
  /\ ~quiet /\ lastOp.op \in {"stopGenerator", "stopAllAudio"}
  /\ quiet' = TRUE
  /\ UNCHANGED <<sessionVars, knobVars, engineVars, lastOp>>

NextStop == UserCallOk \/ GoQuietAfterStop \/ OscEnded

SpecStop == Init /\ [][NextStop]_vars /\ WF_vars(OscEnded)

\* The frequency control alone, over all its inputs.
NextKnob ==
  \/ PointerDown(Angles)
  \/ PointerMove(Angles)
  \/ PointerUp
  \/ Keydown(Keys)
  \/ SetHzCall(Requests)

SpecKnob == Init /\ [][NextKnob]_vars

----------------------------------------------------------------------------
(* Claims *)

\* C1: mutual exclusion.  In every reachable state genRunning and
\* testRunning are not both true.
C1_MutualExclusion == ~(genRunning /\ testRunning)

\* stopAllAudio changes nothing in the state s, however its soft-stops end
PanicIdempotent(s) ==
  \A gt \in Throws, tt \in Throws, ga \in 0..MaxOsc, ta \in 0..MaxOsc :
    stopAllAudio(s, gt, ga, tt, ta) = s

\* C2: panic stop works from any state.  When stopAllAudio has returned no
\* source is running, every oscillator still sounding has had its soft-stop
\* requested, the indicator is cleared, and a second call changes nothing.
C2_PanicStopsEverything ==
  lastOp.op = "stopAllAudio" =>
    /\ ~genRunning /\ ~testRunning
    /\ ~indicator
    /\ \A i \in OscIds : osc[i].kind # "free" => osc[i].soft # "none"
    /\ PanicIdempotent(Cur)

TestIdle == ~testRunning /\ testOsc = null /\ testGain = null /\ ~indicator

\* C3: test tone auto-completion.  Once a test tone is running and no button
\* is pressed any more, the 'ended' event of its scheduled stop arrives and
\* the test tone is back at rest: flag false, references released, indicator
\* cleared.
C3_TestToneAutoCompletes == (quiet /\ testRunning) ~> TestIdle

C3_Witness ==
  /\ quiet /\ lastOp.op = "natural" /\ lastOp.pre = "test"
  /\ TestIdle /\ ~genRunning /\ endOrder = <<>>

\* C4: starting one source while the other is active.  startGenerator called
\* with only the test tone running leaves the test tone stopping (flag false,
\* soft-stop requested on every test oscillator) and the generator running;
\* playTestTone called with only the generator running does the same with
\* the roles exchanged.
C4_StartStopsTheOther ==
  /\ (lastOp.op = "startGenerator" /\ lastOp.pre = "test") =>
       /\ ~testRunning /\ genRunning
       /\ \A i \in OscIds : osc[i].kind = "test" => osc[i].soft # "none"
  /\ (lastOp.op = "playTestTone" /\ lastOp.pre = "gen") =>
       /\ ~genRunning /\ testRunning
       /\ \A i \in OscIds : osc[i].kind = "gen" => osc[i].soft # "none"

\* the handlers that call setHz, lastOp.req being the value they gave it
SetHzOps == (Keys \ {"Tab"}) \cup {"init", "pointerDown", "pointerMove", "setHz"}

\* r is v rounded to the nearest integer (a tie going up) and then clamped
\* to [MIN_HZ, MAX_HZ], stated without Math.round, Math.min and Math.max
IsClampedRound(v, r) ==
  /\ r \in MIN_HZ..MAX_HZ
  /\ 2 * v.n < (2 * MIN_HZ - 1) * v.d => r = MIN_HZ
  /\ 2 * v.n >= (2 * MAX_HZ + 1) * v.d => r = MAX_HZ
  /\ (2 * v.n >= (2 * MIN_HZ - 1) * v.d /\ 2 * v.n < (2 * MAX_HZ + 1) * v.d) =>
       /\ (2 * r - 1) * v.d <= 2 * v.n
       /\ 2 * v.n < (2 * r + 1) * v.d

\* C5: after setHz(v) the stored currentHz is clamp(round(v), 20, 120);
\* setHz(15) stores 20, setHz(125) stores 120, setHz(73.6) stores 74.
C5_SetHzClampsAndRounds ==
  lastOp.op \in SetHzOps =>
    /\ IsClampedRound(lastOp.req, currentHz)
    /\ lastOp.req = Rat(150, 10) => currentHz = 20
    /\ lastOp.req = Rat(1250, 10) => currentHz = 120
    /\ lastOp.req = Rat(736, 10) => currentHz = 74

C5_Witness == lastOp.op = "setHz" /\ lastOp.req = Rat(736, 10) /\ currentHz = 74

\* C6: round trip of the knob mapping.  The angle drawn for the stored value
\* lies in the sweep and maps back to that value, and so does the angle of
\* every integer hz in [20, 120]; the bounds map to -135 and +135 degrees.
C6_KnobRoundTrip ==
  /\ angleToHz(knobAngle) = currentHz
  /\ RatLeq(OfInt(-SweepDeg), knobAngle) /\ RatLeq(knobAngle, OfInt(SweepDeg))
  /\ \A hz \in MIN_HZ..MAX_HZ : angleToHz(hzToAngle(hz)) = hz
  /\ hzToAngle(MIN_HZ) = Rat(-SweepDeg * (MAX_HZ - MIN_HZ), MAX_HZ - MIN_HZ)
  /\ hzToAngle(MAX_HZ) = Rat(SweepDeg * (MAX_HZ - MIN_HZ), MAX_HZ - MIN_HZ)

C6_Witness ==
  /\ lastOp.op = "ArrowUp" /\ currentHz = 74
  /\ knobAngle = Rat(1080, 100) /\ angleToHz(knobAngle) = 74

\* C7: panic stop from Idle is a no-op.  A stopAllAudio called while neither
\* source is running changes nothing of the session, the knob or the
\* oscillators, whether or not the audio context exists.
C7_PanicFromIdleIsNoOp ==
  [][(~genRunning /\ ~testRunning /\ lastOp'.op = "stopAllAudio")
       => UNCHANGED <<sessionVars, knobVars, engineVars>>]_vars

C7_Witness ==
  /\ lastOp.op = "stopAllAudio" /\ lastOp.pre = "idle"
  /\ audioContext /\ genOsc # null /\ testOsc # null

\* C8: the 'active-audio' indicator is set exactly when a source is running.
C8_IndicatorTracksRunning == indicator <=> (genRunning \/ testRunning)

\* C9: forced reset on soft-stop failure.  When the soft-stop of a source
\* threw, the handler that made it returns with that source not running and
\* its node references released; after stopGenerator and stopAllAudio the
\* indicator is cleared as well.
C9_ForcedResetOnFailure ==
  /\ lastOp.genThr \in Throws \ {"ok"} =>
       /\ ~genRunning
       /\ genOsc = null /\ genGain = null /\ genLPF = null
  /\ lastOp.testThr \in Throws \ {"ok"} =>
       /\ ~testRunning
       /\ testOsc = null /\ testGain = null
  /\ (lastOp.op \in {"stopGenerator", "stopAllAudio"}
      /\ (lastOp.genThr \in Throws \ {"ok"} \/ lastOp.testThr \in Throws \ {"ok"}))
       => ~indicator

C9_Witness ==
  /\ lastOp.op = "stopGenerator" /\ lastOp.genThr = "stop" /\ lastOp.pre = "gen"
  /\ ~genRunning /\ genOsc = null /\ ~indicator
  /\ \E i \in OscIds : osc[i].kind = "gen" /\ osc[i].soft = "threw"

\* C10: frequency invariant.  The stored currentHz is an integer between 20
\* and 120, whatever was requested, stepped or dragged; it starts at 30.
C10_FrequencyInRange ==
  /\ currentHz \in MIN_HZ..MAX_HZ
  /\ lastOp.op = "init" => currentHz = InitHz

C10_Witness ==
  /\ lastOp.op = "ArrowUp" /\ lastOp.req = OfInt(MAX_HZ + 1)
  /\ currentHz = MAX_HZ

\* C11: live frequency tracking.  While the generator is running, every
\* generator oscillator that sounds with no stop requested has the stored
\* currentHz as its frequency target.
C11_LiveFrequencyTracking ==
  genRunning =>
    \A i \in OscIds :
      (osc[i].kind = "gen" /\ osc[i].soft = "none") => osc[i].freq = currentHz

\* C12: redundant calls are no-ops.  startGenerator with the generator
\* running, playTestTone with the test tone running and stopGenerator with
\* the generator not running (idle or already stopping) change nothing of
\* the session, the knob or the oscillators.
C12_RedundantCallsAreNoOps ==
  [][(\/ genRunning /\ lastOp'.op = "startGenerator"
      \/ testRunning /\ lastOp'.op = "playTestTone"
      \/ ~genRunning /\ lastOp'.op = "stopGenerator")
       => UNCHANGED <<sessionVars, knobVars, engineVars>>]_vars

\* stopGenerator was called while the generator was already stopping and a
\* test tone was playing
C12_Witness ==
  /\ lastOp.op = "stopGenerator" /\ lastOp.pre = "test"
  /\ testRunning /\ testOsc # null /\ indicator
  /\ genOsc # null /\ osc[genOsc].soft = "ok"

\* C13: start after stop request.  When startGenerator or playTestTone has
\* started a new oscillator, every other oscillator still sounding has had
\* its soft-stop requested.
C13_StartAfterStopRequest ==
  /\ (lastOp.op = "startGenerator" /\ lastOp.pre \in {"idle", "test"}) =>
       \A i \in OscIds :
         (osc[i].kind # "free" /\ i # genOsc) => osc[i].soft # "none"
  /\ (lastOp.op = "playTestTone" /\ lastOp.pre \in {"idle", "gen"}) =>
       \A i \in OscIds :
         (osc[i].kind # "free" /\ i # testOsc) => osc[i].soft # "none"

\* the chain c ends in this step, after a ramp of its gain to 0 came due
EndsAtZeroGain(c) ==
  /\ endOrder # <<>> /\ Head(endOrder) = c /\ endOrder' = Tail(endOrder)
  /\ osc[c].gainEnd \in {"soft", "natural"}

\* C14: gain reaches zero before release.  The node references of a source
\* are set to null only in the step in which the chain they hold ends, and
\* that chain's gain had a ramp to 0 that came due before its stop.
C14_GainZeroBeforeRelease ==
  [][/\ (genGain # null /\ genGain' = null) => EndsAtZeroGain(genGain)
     /\ (genOsc # null /\ genOsc' = null) => EndsAtZeroGain(genOsc)
     /\ (testGain # null /\ testGain' = null) => EndsAtZeroGain(testGain)
     /\ (testOsc # null /\ testOsc' = null) => EndsAtZeroGain(testOsc)]_vars

AllReleased ==
  /\ ~genRunning /\ ~testRunning
  /\ genOsc = null /\ genGain = null /\ genLPF = null
  /\ testOsc = null /\ testGain = null
  /\ \A i \in OscIds : osc[i].kind = "free"

\* C15: stop eventually releases everything.  Once the user's last press was
\* Stop or the panic button, the pending 'ended' events are delivered and the
\* session is back at rest: both flags false, every node reference null and
\* no oscillator left sounding.
C15_StopReleasesEverything == quiet ~> AllReleased

LifecycleOps ==
  {"startGenerator", "stopGenerator", "playTestTone", "stopAllAudio",
   "natural", "releaseGen", "releaseTest", "none"}

\* C16: frequency setting independent of the session lifecycle.
\* startGenerator, stopGenerator, playTestTone, the panic stop and every
\* 'ended' event leave currentHz unchanged, and a start that creates a
\* generator oscillator creates it at the stored currentHz.
C16_FrequencyIndependentOfLifecycle ==
  [][lastOp'.op \in LifecycleOps =>
       /\ currentHz' = currentHz
       /\ (lastOp'.op = "startGenerator" /\ ~genRunning) =>
            (genOsc' # null /\ osc'[genOsc'].freq = currentHz)]_vars

C16_Witness ==
  /\ lastOp.op = "startGenerator" /\ lastOp.pre = "idle"
  /\ currentHz = 45 /\ genOsc # null /\ osc[genOsc].freq = 45
  /\ \E i \in OscIds : i # genOsc /\ osc[i].kind = "gen" /\ osc[i].soft = "ok"

\* C17: keyboard steps.  From a stored value h in 20..120 the arrow keys move
\* by 1 Hz and the page keys by 5 Hz, stopping at the bounds; Home gives 20
\* and End gives 120.
C17_KeyboardSteps ==
  [][LET h == currentHz
         k == lastOp'.op
     IN /\ k \in {"ArrowUp", "ArrowRight"} =>
             currentHz' = IF h + 1 > 120 THEN 120 ELSE h + 1
        /\ k \in {"ArrowDown", "ArrowLeft"} =>
             currentHz' = IF h - 1 < 20 THEN 20 ELSE h - 1
        /\ k = "PageUp" => currentHz' = IF h + 5 > 120 THEN 120 ELSE h + 5
        /\ k = "PageDown" => currentHz' = IF h - 5 < 20 THEN 20 ELSE h - 5
        /\ k = "Home" => currentHz' = 20
        /\ k = "End" => currentHz' = 120]_vars

C17_Witness ==
  /\ lastOp.op = "PageDown" /\ lastOp.req = OfInt(17) /\ currentHz = 20

\* the reference r holds an oscillator chain of the given kind that sounds
\* with no stop requested
HoldsSounding(r, kind) ==
  r # null /\ osc[r].kind = kind /\ osc[r].soft = "none"

\* C18: running implies held nodes.  While genRunning is true, genOsc, genGain
\* and genLPF hold the generator chain that is sounding; while testRunning is
\* true, testOsc and testGain hold the test oscillator that is sounding.
C18_RunningImpliesHeldNodes ==
  /\ genRunning =>
       /\ HoldsSounding(genOsc, "gen")
       /\ genGain = genOsc /\ genLPF = genOsc
  /\ testRunning =>
       /\ HoldsSounding(testOsc, "test")
       /\ testGain = testOsc

\* C19: stale completion isolation.  The 'ended' event of an oscillator
\* changes the flag and the references of a source only if that source's
\* reference holds the oscillator that ended, and it clears the indicator
\* only if no source holding another oscillator is running.
C19_StaleCompletionIsolation ==
  [][(endOrder # <<>> /\ endOrder' = Tail(endOrder)) =>
       LET id == Head(endOrder)
       IN /\ genOsc # id => UNCHANGED <<genOsc, genGain, genLPF, genRunning>>
          /\ testOsc # id => UNCHANGED <<testOsc, testGain, testRunning>>
          /\ (\/ genRunning /\ genOsc # id
              \/ testRunning /\ testOsc # id) => UNCHANGED indicator]_vars

====
